---- MODULE Spec2Model ----
(***************************************************************************)
(* Model of the Workbench component                                        *)
(* (src/app/components/workbench/Workbench.client.tsx).                    *)
(*                                                                         *)
(* The component is event driven and single threaded: every action below   *)
(* is one event-loop task (a user event, a store change together with the  *)
(* re-render and the effects it triggers, or the continuation of an        *)
(* awaited promise up to the next await).  A store change is observed by   *)
(* the mounted component synchronously (useStore), so the change, the      *)
(* re-render and the effects whose dependencies changed form one action.   *)
(* The sync button is rendered from the current component state.           *)
(***************************************************************************)
EXTENDS Integers, FiniteSets, Sequences, Bags, TLC

\* ---------------------------------------------------------------- bounds
MaxInFlight  == 2   \* handleSyncFiles invocations in flight at once
MaxClock     == 2   \* largest value of the millisecond clock
MaxPreviews  == 2   \* largest length of the previews list
MaxFileSet   == 1   \* file sets are numbered 0..MaxFileSet
MaxSaves     == 3   \* onFileSave calls over a behaviour

\* ------------------------------------------------------------ value sets
None       == "none"                 \* directoryRef.current === undefined
Handles    == {"h1", "h2"}           \* handles the picker can return
NoLastSync == 0                      \* lastSync === false
Views      == {"code", "preview"}    \* WorkbenchViewType
ChatProps  == {"true", "false", "absent"}   \* chatStarted?: boolean
FileSets   == 0 .. MaxFileSet
Clocks     == 1 .. MaxClock

VARIABLES
  mounted,                \* a component instance is mounted
  chatStarted,            \* prop chatStarted: "true", "false" or "absent"
  pickerAvailable,        \* window.showDirectoryPicker is defined
  showWorkbench,          \* workbenchStore.showWorkbench
  isSyncing,              \* useState(false)
  lastSync,               \* useState<number | false>(false)
  isSyncFeatureAvailable, \* useState(false)
  directoryRef,           \* useRef(undefined).current
  inflight,               \* bag of handleSyncFiles invocations past the guard
  watch,                  \* what was observed when the watched call started
  clock,                  \* new Date().getTime()
  currentView,            \* workbenchStore.currentView
  viewSetBy,              \* who wrote currentView last: store, user or effect
  previews,               \* workbenchStore.previews.length
  files,                  \* workbenchStore.files (identity of the file set)
  savesPending,           \* saveCurrentDocument promises not yet settled
  fileSaveCalls,          \* calls of onFileSave
  saveCalls,              \* calls of workbenchStore.saveCurrentDocument
  savesFailed,            \* saveCurrentDocument promises that rejected
  toasts,                 \* toast.error notifications raised
  fx                      \* what the last action did (observable effects)

vars == <<mounted, chatStarted, pickerAvailable, showWorkbench, isSyncing,
          lastSync,
          isSyncFeatureAvailable, directoryRef, inflight, watch, clock,
          currentView, viewSetBy, previews, files, savesPending,
          fileSaveCalls, saveCalls, savesFailed, toasts, fx>>

envVars   == <<pickerAvailable, showWorkbench>>
syncVars  == <<isSyncing, lastSync, directoryRef, inflight, watch>>
storeView == <<currentView, viewSetBy, previews>>
saveVars  == <<savesPending, fileSaveCalls, saveCalls, savesFailed, toasts>>

\* ------------------------------------------------- observation records
\* One invocation of handleSyncFiles at a time, chosen freely when it
\* starts, is watched: the record keeps whether it was started by a user
\* event, the clock and lastSync at its start.  Every invocation can be the
\* watched one, so what holds of the watched call holds of every call.
NoWatch == [on |-> FALSE, user |-> FALSE, startClock |-> 0,
            lastSyncBefore |-> NoLastSync]

\* Effects of one action: whether it started an invocation of
\* handleSyncFiles, whether the picker was prompted, the handle passed to
\* the store's syncFiles (None: not invoked), the number of setDocuments
\* calls and their argument, the number of toasts raised, whether an
\* exception left handleSyncFiles, the instance ("live" or "stale") of the
\* invocation the action continued, the watch record if that invocation
\* was the watched one, and the view mode and its writer before the action.
Fx(op) == [op |-> op, started |-> FALSE, prompted |-> FALSE,
           syncedWith |-> None, setDocs |-> 0, docsArg |-> -1, toasts |-> 0,
           escaped |-> FALSE, inst |-> "none", watch |-> NoWatch,
           viewBefore |-> currentView, setByBefore |-> viewSetBy]

\* ------------------------------------------------------------ operators
\* previews.length > 0
hasPreview(n) == n > 0

\* variants: an effect that runs on mount only (empty dependency list), and
\* one that runs on every render (no dependency list)
EffectHasPreviewFires_MountOnly(prevDeps, newDeps) ==
  prevDeps = <<>> /\ newDeps[1] = TRUE
EffectHasPreviewFires_EveryRender(prevDeps, newDeps) == newDeps[1] = TRUE

\* variant: the body of the effect lacks the test of hasPreview
EffectHasPreviewFires_AnyChange(prevDeps, newDeps) == prevDeps # newDeps

\* useEffect(() => { if (hasPreview) setSelectedView('preview') }, [hasPreview])
\* The dependency lists are sequences; the previous one is <<>> on the
\* first render of an instance, so the effect body always runs on mount.
EffectHasPreviewFires(prevDeps, newDeps) ==
  prevDeps # newDeps /\ newDeps[1] = TRUE

\* variants: no guard at all, and a guard on the event alone
Guard_Always(ref, e) == TRUE
Guard_EventOnly(ref, e) == e

\* if (directoryRef.current || e)
Guard(ref, e) == ref # None \/ e

\* variant: the flag is not raised on entry
IsSyncingAfterGuard_NotYet(cur) == cur

\* setIsSyncing(true) right after the guard
IsSyncingAfterGuard(cur) == TRUE

\* Invocations started by the current (latest) instance are "live"; those
\* left over from earlier instances are "stale": they hold the setters and
\* the ref of a component that no longer exists.
\* A state setter of the instance that started the invocation is a no-op
\* once that instance is unmounted.
SetState(i, cur, new) == IF mounted /\ i = "live" THEN new ELSE cur

\* directoryRef.current = directoryHandle, on the ref of that instance
SetRef(i, cur, new) == IF i = "live" THEN new ELSE cur

\* variant: the completion time is not recorded
LastSyncOnSuccess_NotRecorded(cur, now) == cur

\* try-block success path: setLastSync(new Date().getTime())
LastSyncOnSuccess(cur, now) == now

\* variant: the failure path records the time as well
LastSyncOnFailure_Cleared(cur, now) == NoLastSync

LastSyncOnFailure_Recorded(cur, now) == now

\* catch-block: console.error only, lastSync untouched
LastSyncOnFailure(cur, now) == cur

\* catch (error) { console.error(...) }: nothing is re-thrown
CatchRethrows == FALSE

\* variant: the flag is not cleared on exit
IsSyncingOnFinally_Kept(cur) == cur

\* finally { setIsSyncing(false) }
IsSyncingOnFinally(cur) == FALSE

\* .catch(() => { toast.error(...) }) on a rejected save: one notification
ToastsAfterSaveFailure(n) == n + 1

\* variant: the handler is attached to both outcomes
ToastsAfterSaveSuccess_Notifies(n) == n + 1

\* no handler on the fulfilled promise
ToastsAfterSaveSuccess(n) == n

\* variant: the probe result is ignored
ProbeSyncFeature_AlwaysAvailable(picker) == TRUE

\* if (window.showDirectoryPicker) setIsSyncFeatureAvailable(true)
\* else setIsSyncFeatureAvailable(false)
ProbeSyncFeature(picker) == picker

\* the left operand of `chatStarted && (...)`: false and undefined are falsy
Truthy(v) == v = "true"

\* variant: the button ignores the syncing flag
SyncDisabled_IgnoresSyncing == ~isSyncFeatureAvailable

\* disabled={!isSyncFeatureAvailable || isSyncing}
SyncDisabled == ~isSyncFeatureAvailable \/ isSyncing

\* the text of the sync button
SyncLabel ==
  IF isSyncFeatureAvailable
    THEN IF isSyncing THEN "Syncing..."
         ELSE IF lastSync # NoLastSync THEN "Synced ... ago"
         ELSE "Select sync folder"
    ELSE "Live Sync in Chrome, Edge, Opera"

\* the panel: width animation, slider position, sync button
Panel ==
  [animate |-> IF showWorkbench THEN "open" ELSE "closed",
   selected |-> currentView, syncDisabled |-> SyncDisabled,
   syncLabel |-> SyncLabel]

\* variant: the panel is returned whatever chatStarted is
Render_Always == {Panel}

\* return (chatStarted && (<motion.div ...>)): the set of elements rendered
Render == IF Truthy(chatStarted) THEN {Panel} ELSE {}

\* number of copies in bag B of the records satisfying P
RECURSIVE CountIn(_, _)
CountIn(B, S) ==
  IF S = {} THEN 0
  ELSE LET x == CHOOSE y \in S : TRUE IN B[x] + CountIn(B, S \ {x})

\* invocations of instance i that are in flight, and those awaiting the picker
InFlightCount(i) ==
  CountIn(inflight, {inv \in BagToSet(inflight) : inv.inst = i})
PickerCount(i) ==
  CountIn(inflight,
          {inv \in BagToSet(inflight) : inv.inst = i /\ inv.phase = "picker"})

\* on a mount, all invocations in flight belong to an earlier instance
Stale(B) ==
  LET S == BagToSet(B)
      old(inv) == [inv EXCEPT !.inst = "stale"]
  IN [r \in {old(inv) : inv \in S} |->
        CountIn(B, {inv \in S : old(inv) = r})]

\* variant: the cached handle is not consulted, every call asks the picker
NewInvocation_AlwaysPrompts(w) ==
  [inst |-> "live", phase |-> "picker", watched |-> w]

\* the invocation created by a call of handleSyncFiles that passes the
\* guard: with a cached handle the picker is skipped and the store's
\* syncFiles is called at once, otherwise the picker is prompted
NewInvocation(w) ==
  [inst |-> "live", phase |-> IF directoryRef # None THEN "store" ELSE "picker",
   watched |-> w]

\* the watch record of a call starting now
NewWatch(e) == [on |-> TRUE, user |-> e, startClock |-> clock,
                lastSyncBefore |-> lastSync]

\* a starting call may be watched when no call in flight is
WatchChoices == IF watch.on THEN {FALSE} ELSE BOOLEAN

TypeOK ==
  /\ mounted \in BOOLEAN
  /\ chatStarted \in ChatProps /\ pickerAvailable \in BOOLEAN
  /\ showWorkbench \in BOOLEAN
  /\ isSyncing \in BOOLEAN /\ lastSync \in {NoLastSync} \cup Clocks
  /\ isSyncFeatureAvailable \in BOOLEAN
  /\ directoryRef \in Handles \cup {None}
  /\ IsABag(inflight) /\ BagCardinality(inflight) <= MaxInFlight
  /\ watch.on \in BOOLEAN
  /\ clock \in Clocks
  /\ currentView \in Views /\ viewSetBy \in {"store", "user", "effect"}
  /\ previews \in 0 .. MaxPreviews
  /\ files \in FileSets
  /\ savesPending \in 0 .. MaxSaves /\ fileSaveCalls \in 0 .. MaxSaves
  /\ saveCalls \in 0 .. MaxSaves /\ savesFailed \in 0 .. MaxSaves
  /\ toasts \in 0 .. (2 * MaxSaves)

\* ----------------------------------------------------------------- Init
\* Before the first mount: the store holds either view mode, an empty
\* previews list and a closed workbench; the host exposes the picker or
\* not; the parent passes chatStarted = false or omits the prop.
Init ==
  /\ mounted = FALSE
  /\ chatStarted \in {"false", "absent"}
  /\ pickerAvailable \in BOOLEAN
  /\ showWorkbench = FALSE
  /\ isSyncing = FALSE /\ lastSync = NoLastSync
  /\ isSyncFeatureAvailable = FALSE
  /\ directoryRef = None
  /\ inflight = EmptyBag /\ watch = NoWatch
  /\ clock = 1
  /\ currentView \in Views /\ viewSetBy = "store"
  /\ previews = 0
  /\ files = 0
  /\ savesPending = 0 /\ fileSaveCalls = 0 /\ saveCalls = 0
  /\ savesFailed = 0 /\ toasts = 0
  /\ fx = [op |-> "Init", started |-> FALSE, prompted |-> FALSE,
           syncedWith |-> None, setDocs |-> 0, docsArg |-> -1, toasts |-> 0,
           escaped |-> FALSE, inst |-> "none", watch |-> NoWatch,
           viewBefore |-> currentView, setByBefore |-> viewSetBy]

\* -------------------------------------------------------------- actions
\* First render of a new instance and its mount effects, in source order:
\* capability probe, preview effect, files effect (handleSyncFiles() finds
\* no cached handle in the fresh ref and no event).
Mount ==
  /\ ~mounted
  /\ mounted' = TRUE /\ inflight' = Stale(inflight)
  /\ isSyncing' = FALSE /\ lastSync' = NoLastSync /\ directoryRef' = None
  /\ isSyncFeatureAvailable' = ProbeSyncFeature(pickerAvailable)
  /\ IF EffectHasPreviewFires(<<>>, <<hasPreview(previews)>>)
       THEN currentView' = "preview" /\ viewSetBy' = "effect"
       ELSE UNCHANGED <<currentView, viewSetBy>>
  /\ fx' = [Fx("Mount") EXCEPT !.setDocs = 1, !.docsArg = files,
                               !.started = Guard(None, FALSE)]
  /\ UNCHANGED <<chatStarted, envVars, watch, clock, previews, files,
                 saveVars>>

\* variant: a cleanup that drops the pending invocations of the instance
Unmount_Cancels ==
  /\ mounted
  /\ mounted' = FALSE
  /\ inflight' = EmptyBag /\ watch' = NoWatch
  /\ fx' = Fx("Unmount")
  /\ UNCHANGED <<chatStarted, envVars, isSyncing, lastSync, directoryRef,
                 isSyncFeatureAvailable, clock, storeView, files, saveVars>>

\* The instance is torn down; pending promises keep running.
Unmount ==
  /\ mounted
  /\ mounted' = FALSE
  /\ fx' = Fx("Unmount")
  /\ UNCHANGED <<chatStarted, envVars, syncVars,
                 isSyncFeatureAvailable, clock, storeView, files, saveVars>>

\* The conversation starts: the parent sets the chatStarted prop.
StartChat ==
  /\ ~Truthy(chatStarted)
  /\ chatStarted' = "true"
  /\ fx' = Fx("StartChat")
  /\ UNCHANGED <<mounted, envVars, syncVars, isSyncFeatureAvailable,
                 clock, storeView, files, saveVars>>

\* The parent withdraws the prop: chatStarted becomes false or is omitted.
StopChat(v) ==
  /\ Truthy(chatStarted) /\ ~Truthy(v)
  /\ chatStarted' = v
  /\ fx' = Fx("StopChat")
  /\ UNCHANGED <<mounted, envVars, syncVars, isSyncFeatureAvailable,
                 clock, storeView, files, saveVars>>

\* Some other part of the application opens the workbench.
OpenWorkbench ==
  /\ ~showWorkbench
  /\ showWorkbench' = TRUE
  /\ fx' = Fx("OpenWorkbench")
  /\ UNCHANGED <<mounted, chatStarted, pickerAvailable, syncVars,
                 isSyncFeatureAvailable, clock, storeView, files, saveVars>>

\* The user clicks the close button: workbenchStore.showWorkbench.set(false)
CloseWorkbench ==
  /\ mounted /\ Truthy(chatStarted) /\ showWorkbench
  /\ showWorkbench' = FALSE
  /\ fx' = Fx("CloseWorkbench")
  /\ UNCHANGED <<mounted, chatStarted, pickerAvailable, syncVars,
                 isSyncFeatureAvailable, clock, storeView, files, saveVars>>

\* Time passes.
Tick ==
  /\ clock < MaxClock
  /\ clock' = clock + 1
  /\ fx' = Fx("Tick")
  /\ UNCHANGED <<mounted, chatStarted, envVars, syncVars,
                 isSyncFeatureAvailable, storeView, files, saveVars>>

\* workbenchStore.previews changes; a mounted instance re-renders and the
\* preview effect runs if its dependency changed.
PreviewsChange(n) ==
  /\ n # previews
  /\ previews' = n
  /\ IF mounted /\ EffectHasPreviewFires(<<hasPreview(previews)>>,
                                         <<hasPreview(n)>>)
       THEN currentView' = "preview" /\ viewSetBy' = "effect"
       ELSE UNCHANGED <<currentView, viewSetBy>>
  /\ fx' = Fx("PreviewsChange")
  /\ UNCHANGED <<mounted, chatStarted, envVars, syncVars,
                 isSyncFeatureAvailable, clock, files, saveVars>>

\* handleSyncFiles(e) up to its first await, called by action op
HandleSyncFiles(e, base) ==
  IF Guard(directoryRef, e)
    THEN \E w \in WatchChoices :
         LET inv == NewInvocation(w) IN
         /\ BagCardinality(inflight) < MaxInFlight
         /\ isSyncing' = IsSyncingAfterGuard(isSyncing)
         /\ inflight' = inflight (+) SetToBag({inv})
         /\ watch' = IF w THEN NewWatch(e) ELSE watch
         /\ fx' = [base EXCEPT !.started = TRUE, !.inst = "live",
                               !.prompted = (inv.phase = "picker"),
                               !.syncedWith = directoryRef,
                               !.watch = IF w THEN NewWatch(e) ELSE NoWatch]
         /\ UNCHANGED <<lastSync, directoryRef>>
    ELSE /\ fx' = base
         /\ UNCHANGED syncVars

\* workbenchStore.files changes; a mounted instance runs the files effect:
\* setDocuments(files); handleSyncFiles().
FilesChange(f) ==
  /\ f # files
  /\ files' = f
  /\ IF ~mounted
       THEN /\ fx' = Fx("FilesChange")
            /\ UNCHANGED syncVars
       ELSE HandleSyncFiles(FALSE,
              [Fx("FilesChange") EXCEPT !.setDocs = 1, !.docsArg = f])
  /\ UNCHANGED <<mounted, chatStarted, envVars,
                 isSyncFeatureAvailable, clock, storeView, saveVars>>

\* The user picks a view on the slider: setSelectedView(view).
SelectView(v) ==
  /\ mounted /\ Truthy(chatStarted)
  /\ currentView' = v /\ viewSetBy' = "user"
  /\ fx' = Fx("SelectView")
  /\ UNCHANGED <<mounted, chatStarted, envVars, syncVars,
                 isSyncFeatureAvailable, clock, previews, files, saveVars>>

\* The user clicks the sync button: handleSyncFiles(e).
Click ==
  /\ mounted /\ Truthy(chatStarted) /\ ~SyncDisabled
  /\ HandleSyncFiles(TRUE, Fx("Click"))
  /\ UNCHANGED <<mounted, chatStarted, envVars,
                 isSyncFeatureAvailable, clock, storeView, files, saveVars>>

\* the effects record of an action that continues invocation inv
FxOf(op, inv) ==
  [Fx(op) EXCEPT !.inst = inv.inst,
                 !.watch = IF inv.watched THEN watch ELSE NoWatch]

\* showDirectoryPicker() resolves with handle h: the ref is updated and the
\* store's syncFiles is called with h.
PickerResolve(inv, h) ==
  /\ BagIn(inv, inflight) /\ inv.phase = "picker"
  /\ directoryRef' = SetRef(inv.inst, directoryRef, h)
  /\ inflight' = (inflight (-) SetToBag({inv}))
                   (+) SetToBag({[inv EXCEPT !.phase = "store"]})
  /\ fx' = [FxOf("PickerResolve", inv) EXCEPT !.syncedWith = h]
  /\ UNCHANGED <<mounted, chatStarted, envVars, isSyncing, lastSync,
                 watch, isSyncFeatureAvailable, clock, storeView, files,
                 saveVars>>

\* the invocation leaves through the finally block
Finish(inv, newLastSync) ==
  /\ inflight' = inflight (-) SetToBag({inv})
  /\ watch' = IF inv.watched THEN NoWatch ELSE watch
  /\ lastSync' = SetState(inv.inst, lastSync, newLastSync)
  /\ isSyncing' = SetState(inv.inst, isSyncing, IsSyncingOnFinally(isSyncing))
  /\ UNCHANGED <<mounted, chatStarted, envVars,
                 isSyncFeatureAvailable, directoryRef, clock, storeView,
                 files, saveVars>>

\* showDirectoryPicker() rejects (the user cancels): catch, then finally.
PickerReject(inv) ==
  /\ BagIn(inv, inflight) /\ inv.phase = "picker"
  /\ Finish(inv, LastSyncOnFailure(lastSync, clock))
  /\ fx' = [FxOf("PickerReject", inv) EXCEPT !.escaped = CatchRethrows]

\* workbenchStore.syncFiles(handle) resolves: setLastSync, then finally.
StoreResolve(inv) ==
  /\ BagIn(inv, inflight) /\ inv.phase = "store"
  /\ Finish(inv, LastSyncOnSuccess(lastSync, clock))
  /\ fx' = FxOf("StoreResolve", inv)

\* workbenchStore.syncFiles(handle) rejects: catch, then finally.
StoreReject(inv) ==
  /\ BagIn(inv, inflight) /\ inv.phase = "store"
  /\ Finish(inv, LastSyncOnFailure(lastSync, clock))
  /\ fx' = [FxOf("StoreReject", inv) EXCEPT !.escaped = CatchRethrows]

\* The editor asks to save: workbenchStore.saveCurrentDocument().catch(...)
OnFileSave ==
  /\ mounted /\ Truthy(chatStarted)
  /\ fileSaveCalls < MaxSaves
  /\ fileSaveCalls' = fileSaveCalls + 1
  /\ saveCalls' = saveCalls + 1
  /\ savesPending' = savesPending + 1
  /\ fx' = Fx("OnFileSave")
  /\ UNCHANGED <<mounted, chatStarted, envVars, syncVars,
                 isSyncFeatureAvailable, clock, storeView, files,
                 savesFailed, toasts>>

\* saveCurrentDocument() fulfils.
SaveResolve ==
  /\ savesPending > 0
  /\ savesPending' = savesPending - 1
  /\ toasts' = ToastsAfterSaveSuccess(toasts)
  /\ fx' = [Fx("SaveResolve") EXCEPT !.toasts = toasts' - toasts]
  /\ UNCHANGED <<mounted, chatStarted, envVars, syncVars,
                 isSyncFeatureAvailable, clock, storeView, files,
                 fileSaveCalls, saveCalls, savesFailed>>

\* saveCurrentDocument() rejects: the catch handler raises a toast.
SaveReject ==
  /\ savesPending > 0
  /\ savesPending' = savesPending - 1
  /\ savesFailed' = savesFailed + 1
  /\ toasts' = ToastsAfterSaveFailure(toasts)
  /\ fx' = [Fx("SaveReject") EXCEPT !.toasts = toasts' - toasts]
  /\ UNCHANGED <<mounted, chatStarted, envVars, syncVars,
                 isSyncFeatureAvailable, clock, storeView, files,
                 fileSaveCalls, saveCalls>>

\* The view mode, the clock and the saves do not influence one another:
\* the sync path reads the clock and never the view mode, the view path
\* never reads the clock, and the save path shares only the life cycle of
\* the component with the other two.  Each path is checked in its own
\* specification, together with every action it could interfere with.

\* The sync path: life cycle, clock, file-set changes, clicks and the
\* outcomes of the picker and of the store's syncFiles.
Next ==
  \/ Mount
  \/ Unmount
  \/ StartChat
  \/ Tick
  \/ \E f \in FileSets : FilesChange(f)
  \/ Click
  \/ \E inv \in BagToSet(inflight) : \E h \in Handles : PickerResolve(inv, h)
  \/ \E inv \in BagToSet(inflight) : PickerReject(inv)
  \/ \E inv \in BagToSet(inflight) : StoreResolve(inv)
  \/ \E inv \in BagToSet(inflight) : StoreReject(inv)

Spec == Init /\ [][Next]_vars

\* The view path: life cycle, previews, view selection, and the whole sync
\* path at a standing clock.
ViewNext ==
  \/ Mount
  \/ Unmount
  \/ StartChat
  \/ \E n \in 0 .. MaxPreviews : PreviewsChange(n)
  \/ \E v \in Views : SelectView(v)
  \/ \E f \in FileSets : FilesChange(f)
  \/ Click
  \/ \E inv \in BagToSet(inflight) : \E h \in Handles : PickerResolve(inv, h)
  \/ \E inv \in BagToSet(inflight) : PickerReject(inv)
  \/ \E inv \in BagToSet(inflight) : StoreResolve(inv)
  \/ \E inv \in BagToSet(inflight) : StoreReject(inv)

ViewSpec == Init /\ [][ViewNext]_vars

\* The render path: life cycle, the chatStarted prop, the visibility flag,
\* view selection, and the whole sync path at a standing clock.
RenderNext ==
  \/ Mount
  \/ Unmount
  \/ StartChat
  \/ \E v \in ChatProps : StopChat(v)
  \/ OpenWorkbench
  \/ CloseWorkbench
  \/ \E v \in Views : SelectView(v)
  \/ \E f \in FileSets : FilesChange(f)
  \/ Click
  \/ \E inv \in BagToSet(inflight) : \E h \in Handles : PickerResolve(inv, h)
  \/ \E inv \in BagToSet(inflight) : PickerReject(inv)
  \/ \E inv \in BagToSet(inflight) : StoreResolve(inv)
  \/ \E inv \in BagToSet(inflight) : StoreReject(inv)

RenderSpec == Init /\ [][RenderNext]_vars

\* The save path.
SaveNext ==
  \/ Mount
  \/ Unmount
  \/ StartChat
  \/ OnFileSave
  \/ SaveResolve
  \/ SaveReject

SaveSpec == Init /\ [][SaveNext]_vars

\* ------------------------------------------------------------ the claims
\* C1: at most one invocation of handleSyncFiles of the component is past
\* its guard and before its finally block, in every reachable state.
C1_AtMostOneSyncInFlight == InFlightCount("live") <= 1

\* C2: for the mounted component, isSyncing is true only while one of its
\* handleSyncFiles invocations is in flight; with none in flight it is false.
C2_SyncingOnlyWhileInFlight ==
  mounted => (isSyncing => InFlightCount("live") > 0)

C2_Witness == mounted /\ isSyncing /\ InFlightCount("live") > 0

\* C3: a file-set change (handleSyncFiles without an event) while no handle
\* is cached changes neither isSyncing nor lastSync, starts no invocation,
\* prompts no picker and does not invoke the store's syncFiles; the same
\* holds of the call made by the files effect on mount.
C3_NoHandleNoEventIsNoOp ==
  /\ [](fx.op = "Mount" =>
          ~fx.started /\ ~fx.prompted /\ fx.syncedWith = None)
  /\ [][(mounted /\ files' # files /\ directoryRef = None) =>
          /\ UNCHANGED <<isSyncing, lastSync, inflight, directoryRef>>
          /\ ~fx'.started /\ ~fx'.prompted /\ fx'.syncedWith = None]_vars

C3_Witness ==
  /\ mounted /\ fx.op = "FilesChange" /\ fx.setDocs = 1
  /\ directoryRef = None /\ ~isSyncing /\ lastSync = NoLastSync

\* the watched call was started by a user event on the instance that is
\* still mounted, and its store sync has just resolved
UserSyncSucceeded ==
  /\ fx.op = "StoreResolve" /\ fx.watch.on /\ fx.watch.user
  /\ fx.inst = "live" /\ mounted

\* C4 as stated: when a user-triggered sync succeeds isSyncing is false
\* again and lastSync is strictly greater than the clock at the start of
\* the call.
C4_TimestampStrictlyGreater ==
  /\ (fx.op = "Click" => isSyncing)
  /\ (UserSyncSucceeded => ~isSyncing /\ lastSync > fx.watch.startClock)

\* C4 amended: a user click sets isSyncing; when the sync succeeds on the
\* mounted component isSyncing is false again and lastSync is the clock
\* value read at completion, which is not less than the clock at the start
\* of the call.
C4_TimestampIsCompletionTime ==
  /\ (fx.op = "Click" => isSyncing)
  /\ (UserSyncSucceeded =>
        ~isSyncing /\ lastSync = clock /\ lastSync >= fx.watch.startClock)

C4_Witness == UserSyncSucceeded /\ lastSync > fx.watch.startClock

\* C5: when the store's syncFiles fails, isSyncing is false again, lastSync
\* has the value it had before the call, nothing is thrown out of
\* handleSyncFiles and no toast is raised.
C5_FailedSyncKeepsLastSync ==
  (fx.op = "StoreReject" /\ fx.watch.on /\ fx.inst = "live" /\ mounted) =>
     /\ ~isSyncing
     /\ lastSync = fx.watch.lastSyncBefore
     /\ ~fx.escaped /\ fx.toasts = 0

\* C6: whenever the previews list of the store goes from empty to non-empty
\* under the mounted component, the view mode is 'preview' afterwards.
C6_PreviewArrivalForcesPreview ==
  [][(mounted /\ previews = 0 /\ previews' > 0) =>
       currentView' = "preview"]_vars

C6_Witness ==
  /\ fx.op = "PreviewsChange" /\ previews > 0
  /\ fx.viewBefore = "code" /\ fx.setByBefore = "user"
  /\ currentView = "preview"

\* C7 as stated: once the user has selected 'code' with previews present,
\* no step other than a user toggle changes the view mode while the list
\* stays non-empty.
C7_ManualCodeSticky ==
  [][(viewSetBy = "user" /\ currentView = "code" /\ previews > 0
        /\ fx'.op # "SelectView") => currentView' = "code"]_vars

\* C7 amended: once the user has selected 'code' with previews present, no
\* step other than a user toggle or the mount of a component instance
\* changes the view mode while the list stays non-empty.
C7_ManualCodeStickyUntilMount ==
  [][(viewSetBy = "user" /\ currentView = "code" /\ previews > 0
        /\ fx'.op \notin {"SelectView", "Mount"}) =>
       currentView' = "code"]_vars

C7_Witness ==
  /\ mounted /\ fx.op = "PreviewsChange" /\ previews > 1
  /\ viewSetBy = "user" /\ currentView = "code"

\* C8 as stated: while the picker prompt of the component is pending,
\* isSyncing is still false.
C8_NotSyncingWhilePickerPending ==
  (mounted /\ PickerCount("live") > 0) => ~isSyncing

\* C8 amended: a call that passes the guard sets isSyncing at once, so while
\* the picker prompt is pending isSyncing is already true and no handle is
\* cached.
C8_SyncingWhilePickerPending ==
  /\ (fx.started => fx.op \in {"Click", "FilesChange"} /\ isSyncing)
  /\ (PickerCount("live") > 0 => isSyncing /\ directoryRef = None)

C8_Witness ==
  mounted /\ fx.prompted /\ PickerCount("live") > 0 /\ isSyncing

\* C9: a file-set change under the mounted component calls setDocuments
\* once with the new file set, starts a sync exactly when a handle is
\* cached, and that sync passes the cached handle to the store's syncFiles
\* without prompting the picker.
C9_FilesChangePropagatesAndSyncs ==
  (mounted /\ fx.op = "FilesChange") =>
     /\ fx.setDocs = 1 /\ fx.docsArg = files
     /\ (fx.started <=> directoryRef # None)
     /\ ~fx.prompted
     /\ fx.syncedWith = directoryRef

C9_Witness ==
  /\ mounted /\ fx.op = "FilesChange" /\ fx.started
  /\ fx.syncedWith \in Handles

\* C10: a failed save raises one toast and a successful one none, so the
\* toasts raised equal the failed saves, and every onFileSave call invokes
\* the store's save once (no retry).
C10_OneToastPerFailedSave ==
  /\ toasts = savesFailed
  /\ saveCalls = fileSaveCalls
  /\ (fx.op = "SaveReject" => fx.toasts = 1)
  /\ (fx.op = "SaveResolve" => fx.toasts = 0)

C10_Witness ==
  /\ fx.op = "SaveReject" /\ savesFailed = 2 /\ toasts = 2
  /\ fileSaveCalls = 3 /\ savesPending = 0

\* C11: when the previews list goes from non-empty to empty, the view mode
\* of the store keeps its value.
C11_PreviewsEmptiedKeepsView ==
  [][(previews > 0 /\ previews' = 0) => currentView' = currentView]_vars

C11_Witness ==
  /\ mounted /\ fx.op = "PreviewsChange" /\ previews = 0
  /\ fx.viewBefore = "code" /\ currentView = "code"

\* C12: whenever chatStarted is false or absent the component renders
\* nothing, whatever showWorkbench, the view mode, isSyncing, lastSync and
\* the availability of the sync feature are.
C12_NoOutputBeforeChat == ~Truthy(chatStarted) => Render = {}

\* after the chat has been withdrawn, with a sync in flight, a workbench
\* left open and the preview selected
C12_Witness ==
  /\ mounted /\ chatStarted = "absent" /\ Render = {}
  /\ showWorkbench /\ isSyncing /\ isSyncFeatureAvailable
  /\ currentView = "preview"

\* ... and with the complementary values
C12_WitnessIdle ==
  /\ mounted /\ chatStarted = "false" /\ Render = {}
  /\ ~showWorkbench /\ ~isSyncing /\ lastSync # NoLastSync
  /\ currentView = "code"

\* C13: whenever an invocation of handleSyncFiles of the mounted component
\* is in flight (awaiting the picker or the store's syncFiles), the sync
\* button is disabled, so that no click can start another one.
C13_DisabledWhileInFlight ==
  (mounted /\ InFlightCount("live") > 0) => SyncDisabled

\* the picker prompt of a call of the mounted component has just been
\* rejected (the user cancelled)
PickerCancelled ==
  fx.op = "PickerReject" /\ fx.inst = "live" /\ mounted

\* C14: when the picker is cancelled during a sync of the mounted component
\* the store's syncFiles is not invoked, no handle is cached, lastSync has
\* the value it had before the call, isSyncing is false, no invocation is
\* started or left in flight and nothing is thrown; and a handle is cached
\* only by a picker prompt that resolves, which only a click starts, so
\* that file-set changes stay without effect until then.
C14_CancelledPickerLeavesNoTrace ==
  /\ [](PickerCancelled =>
          /\ fx.syncedWith = None /\ directoryRef = None
          /\ (fx.watch.on => lastSync = fx.watch.lastSyncBefore)
          /\ lastSync = NoLastSync
          /\ ~isSyncing /\ ~fx.started /\ ~fx.escaped
          /\ InFlightCount("live") = 0)
  /\ [][(mounted /\ directoryRef = None) =>
          /\ (directoryRef' # None => fx'.op = "PickerResolve")
          /\ (fx'.prompted => fx'.op = "Click")
          /\ (fx'.op = "FilesChange" =>
                ~fx'.started /\ fx'.syncedWith = None)]_vars

C14_Witness ==
  /\ PickerCancelled /\ fx.watch.on /\ fx.watch.user
  /\ directoryRef = None /\ ~isSyncing

\* C15: tearing the component down cancels nothing: the unmount leaves the
\* invocations in flight as they are, a picker that resolves afterwards
\* still makes the call invoke the store's syncFiles with the handle picked,
\* and completions after the teardown leave isSyncing and lastSync alone;
\* invocations left by an earlier instance never write the state or the
\* ref of the current one.
C15_TeardownDoesNotCancel ==
  /\ [](fx.op = "PickerResolve" => fx.syncedWith \in Handles)
  /\ [][/\ (fx'.op = "Unmount" => inflight' = inflight)
        /\ (~mounted /\ ~mounted' => UNCHANGED <<isSyncing, lastSync>>)
        /\ (fx'.inst = "stale" =>
              UNCHANGED <<isSyncing, lastSync, directoryRef>>)
        /\ (fx'.op \in {"PickerReject", "StoreResolve", "StoreReject"} =>
              BagCardinality(inflight') = BagCardinality(inflight) - 1)]_vars

\* the picker resolved after the teardown and the store's syncFiles was
\* invoked, while isSyncing is left set
C15_Witness ==
  /\ ~mounted /\ fx.op = "PickerResolve" /\ fx.syncedWith \in Handles
  /\ isSyncing /\ lastSync = NoLastSync

\* the store's sync completed after the teardown
C15_WitnessCompleted ==
  /\ ~mounted /\ fx.op = "StoreResolve" /\ fx.inst = "live"
  /\ isSyncing /\ lastSync = NoLastSync /\ inflight = EmptyBag

\* C16: within one component instance, once directoryRef holds a handle no
\* step clears or replaces it (also not a failed store sync), no step
\* prompts the picker, and every call of the store's syncFiles made by the
\* instance passes that handle.
C16_HandleIsWriteOnce ==
  [][(directoryRef # None /\ fx'.op # "Mount") =>
       /\ directoryRef' = directoryRef
       /\ ~fx'.prompted
       /\ (fx'.op # "PickerResolve" \/ fx'.inst # "live")
       /\ ((fx'.inst = "live" /\ fx'.syncedWith # None) =>
             fx'.syncedWith = directoryRef)]_vars

\* a later click, after a failed or successful sync, reuses the handle
C16_Witness ==
  /\ mounted /\ fx.op = "Click" /\ fx.started /\ ~fx.prompted
  /\ directoryRef \in Handles /\ fx.syncedWith = directoryRef

\* C17: the picker is prompted only by a click made while no handle is
\* cached, never by a file-set change or a mount, and the mounted
\* component has at most one picker prompt outstanding.
C17_PickerOnlyFromClick ==
  /\ (fx.prompted =>
        fx.op = "Click" /\ fx.started /\ directoryRef = None
        /\ fx.syncedWith = None)
  /\ (fx.op \in {"FilesChange", "Mount"} => ~fx.prompted)
  /\ PickerCount("live") <= 1

C17_Witness ==
  /\ mounted /\ fx.op = "Click" /\ fx.prompted
  /\ PickerCount("live") = 1 /\ directoryRef = None

\* C18: on a host without the directory picker the sync feature is never
\* reported available, and while it is not the button is disabled, no
\* handle is cached, isSyncing is false, lastSync is absent, no invocation
\* is started or in flight, the picker is not prompted and the store's
\* syncFiles is not invoked.
C18_NoSyncWithoutPicker ==
  /\ (~pickerAvailable => ~isSyncFeatureAvailable)
  /\ (~isSyncFeatureAvailable =>
        /\ SyncDisabled /\ directoryRef = None
        /\ ~isSyncing /\ lastSync = NoLastSync
        /\ inflight = EmptyBag
        /\ ~fx.started /\ ~fx.prompted /\ fx.syncedWith = None)

C18_Witness ==
  /\ ~pickerAvailable /\ mounted /\ Truthy(chatStarted)
  /\ fx.op = "FilesChange" /\ fx.setDocs = 1 /\ SyncDisabled

\* C19: within one component instance lastSync changes only in the step in
\* which a store syncFiles call of that instance resolves; once set it is
\* never absent again, and its value never decreases, whatever the
\* interleaving of overlapping syncs.
C19_LastSyncMonotone ==
  [][fx'.op # "Mount" =>
       /\ (lastSync' # lastSync => fx'.op = "StoreResolve" /\ fx'.inst = "live")
       /\ (lastSync # NoLastSync => lastSync' # NoLastSync)
       /\ lastSync' >= lastSync]_vars

C19_Witness ==
  /\ mounted /\ fx.op = "StoreResolve" /\ fx.inst = "live"
  /\ fx.watch.on /\ fx.watch.lastSyncBefore # NoLastSync
  /\ lastSync > fx.watch.lastSyncBefore
  /\ InFlightCount("live") > 0

====
